---- MODULE Spec2Model ----
(***************************************************************************)
(* Model of the two command-line tools of heart-failure-analysis:          *)
(*   scripts/model_evaluation.py  (the Evaluator)                          *)
(*   src/correlation_analysis.py  (the Correlation Reporter)               *)
(* Each tool is a sequential procedure; one action per statement group.    *)
(***************************************************************************)
EXTENDS Integers, Sequences, FiniteSets, TLC

\* ------------------------------------------------------------------ bounds
MaxRows == 4
MaxTrain == 2
MaxTest == 1
MaxDepth == 2

\* ------------------------------------------------------------------ state
VARIABLES
    \* Evaluator (scripts/model_evaluation.py)
    epc,                        \* position in main
    seed,                       \* --seed
    rng_state,                  \* numpy's global generator state
    scaled_test_data,           \* the test CSV on disk
    pipeline_from,              \* the pickled pipeline on disk
    results_to,                 \* [exists, scores_writable]: the output directory
    cm_file,                    \* results_to/confusion_matrix.csv
    scores_file,                \* results_to/test_scores.csv
    heart_failure_test,         \* DataFrame read from the CSV
    heart_failure_fit,          \* unpickled pipeline
    heart_failure_predictions,  \* the 'predicted' column
    cm_crosstab,
    accuracy,
    precision,
    recall,
    f1,
    test_scores,
    prev,                       \* what the previous invocation left behind
    \* preprocess_data (src/correlation_analysis.py)
    ppc,                        \* position in preprocess_data
    train_df,
    test_df,
    preprocessor,               \* the column transformer and its fitted state
    fit_calls,                  \* number of times the transformer was fit
    train_scaled,
    test_scaled,
    column_names,
    train_scaled_df,
    test_scaled_df,
    \* Correlation Reporter main and plot_correlation_matrix
    pc,                         \* position in main
    train_file,                 \* the rows of the train CSV
    test_file,                  \* the rows of the test CSV
    output_file,                \* --output_file: given or not, depth of its directory part
    threshold_feature_feature,
    fs,                         \* the components of the directory part on disk
    heatmap,                    \* the file at output_file
    shown,                      \* the chart was displayed
    scaled_train,
    chart,
    stdout,
    stderr,
    exit_status,
    start                       \* the file system as the run found it

evalVars == <<epc, seed, rng_state, scaled_test_data, pipeline_from, results_to,
              cm_file, scores_file, heart_failure_test, heart_failure_fit,
              heart_failure_predictions, cm_crosstab, accuracy, precision,
              recall, f1, test_scores, prev>>

metricLocals == <<accuracy, precision, recall, f1>>

prepVars == <<ppc, train_df, test_df, preprocessor, fit_calls, train_scaled,
              test_scaled, column_names, train_scaled_df, test_scaled_df>>

repVars == <<pc, train_file, test_file, output_file, threshold_feature_feature,
             fs, heatmap, shown, scaled_train, chart, stdout, stderr,
             exit_status, start>>

vars == <<evalVars, prepVars, repVars>>

\* ------------------------------------------------------------------ helpers
Range(s) == {s[i] : i \in DOMAIN s}

SeqsUpTo(S, lo, hi) == UNION {[1..n -> S] : n \in lo..hi}

RECURSIVE SumOver(_, _)
SumOver(f, D) ==
    IF D = {} THEN 0
    ELSE LET d == CHOOSE x \in D : TRUE IN f[d] + SumOver(f, D \ {d})

Frac(n, d) == [num |-> n, den |-> d]

\* a/b = c/d on fractions with positive denominators
FracEq(a, b) == a.num * b.den = b.num * a.den

FracInUnit(a) == a.den > 0 /\ 0 <= a.num /\ a.num <= a.den

\* ------------------------------------------------------------------ Evaluator
\* --seed is a Python int, which has no width. A seed is written in two limbs,
\* as hi * 65536 + lo with lo in 0..65535, so that 2**32 can be told from the
\* seeds numpy accepts.
Seed(hi, lo) == [hi |-> hi, lo |-> lo]

\* the default 123, another accepted seed, -1 and 2**32
Seeds == {Seed(0, 123), Seed(0, 7), Seed(-1, 65535), Seed(65536, 0)}

\* np.random.seed raises ValueError unless 0 <= seed <= 2**32 - 1
seed_raises(s) == s.hi < 0 \/ s.hi >= 65536

\* numpy's global generator before and after np.random.seed
Unseeded == [seeded |-> FALSE, by |-> Seed(0, 0)]

Seeded(s) == [seeded |-> TRUE, by |-> s]

ActualLabels == {0, 1}

\* What an opaque fitted pipeline may emit for one row.
PredictedLabels == {0, 1, 2}

\* crosstab as it would be with the columns taken from the actual labels:
\* a prediction outside them is counted nowhere.
crosstab_actual_columns(actual, predicted) ==
    [index   |-> Range(actual),
     columns |-> Range(actual),
     cell    |-> [p \in Range(actual) \X Range(actual) |->
                    Cardinality({i \in DOMAIN actual :
                                   actual[i] = p[1] /\ predicted[i] = p[2]})]]

\* pandas.crosstab: one row per observed actual value, one column per observed
\* predicted value, each cell the number of rows with that pair.
crosstab(actual, predicted) ==
    [index   |-> Range(actual),
     columns |-> Range(predicted),
     cell    |-> [p \in Range(actual) \X Range(predicted) |->
                    Cardinality({i \in DOMAIN actual :
                                   actual[i] = p[1] /\ predicted[i] = p[2]})]]

NoTable == crosstab(<<>>, <<>>)

\* sklearn zero_division="warn": a 0/0 score is reported as 0.
prf_divide(n, d) == IF d = 0 THEN Frac(0, 1) ELSE Frac(n, d)

tp_sum(y_true, y_pred) ==
    Cardinality({i \in DOMAIN y_true : y_true[i] = 1 /\ y_pred[i] = 1})

pred_sum(y_true, y_pred) == Cardinality({i \in DOMAIN y_pred : y_pred[i] = 1})

true_sum(y_true, y_pred) == Cardinality({i \in DOMAIN y_true : y_true[i] = 1})

accuracy_score(y_true, y_pred) ==
    Frac(Cardinality({i \in DOMAIN y_true : y_true[i] = y_pred[i]}), Len(y_true))

\* precision with recall's denominator
precision_over_true(y_true, y_pred) ==
    prf_divide(tp_sum(y_true, y_pred), true_sum(y_true, y_pred))

precision_score(y_true, y_pred) ==
    prf_divide(tp_sum(y_true, y_pred), pred_sum(y_true, y_pred))

recall_score(y_true, y_pred) ==
    prf_divide(tp_sum(y_true, y_pred), true_sum(y_true, y_pred))

f1_score(y_true, y_pred) ==
    prf_divide(2 * tp_sum(y_true, y_pred),
               true_sum(y_true, y_pred) + pred_sum(y_true, y_pred))

\* precision_score/recall_score/f1_score with average='binary', pos_label=1 raise
\* ValueError when more than two labels are present, or when two labels are
\* present and 1 is not one of them.
metrics_raise(y_true, y_pred) ==
    LET present == Range(y_true) \cup Range(y_pred) IN
        \/ Cardinality(present) > 2
        \/ (1 \notin present /\ Cardinality(present) >= 2)

ScoreColumns == <<"accuracy", "precision", "recall", "f1">>

\* pd.DataFrame({'accuracy': [accuracy], 'precision': [precision], ...})
scores_frame(acc, pre, rec, f) ==
    [columns |-> ScoreColumns,
     rows    |-> << <<acc, pre, rec, f>> >>]

\* a local of main that no statement has assigned yet
Unbound == Frac(0, 0)

NoScores == [columns |-> <<>>, rows |-> <<>>]

NoFrame == [has_label |-> FALSE, nrows |-> 0, DEATH_EVENT |-> <<>>]

NoFit == [state |-> "none", labels |-> <<>>]

AbsentTable == [state |-> "absent", table |-> NoTable]

AbsentScores == [state |-> "absent", frame |-> NoScores]

NoPrev == [valid |-> FALSE, seed |-> Seed(0, 0), outcome |-> "none",
           test |-> [readable |-> FALSE, frame |-> NoFrame], fit |-> NoFit,
           cm_file |-> AbsentTable, scores_file |-> AbsentScores]

\* The test CSVs considered: unreadable, readable without a DEATH_EVENT column,
\* readable with one. A readable CSV has at least one row.
TestFiles ==
    {[readable |-> FALSE, frame |-> NoFrame]}
    \cup {[readable |-> TRUE,
           frame |-> [has_label |-> FALSE, nrows |-> n, DEATH_EVENT |-> <<>>]] :
             n \in 1..MaxRows}
    \cup {[readable |-> TRUE,
           frame |-> [has_label |-> TRUE, nrows |-> Len(l), DEATH_EVENT |-> l]] :
             l \in SeqsUpTo(ActualLabels, 1, MaxRows)}

\* The artifacts considered for a test CSV: a file pickle cannot load, a pipeline
\* fit on other columns, a pipeline emitting one label per row.
Artifacts(t) ==
    IF ~t.readable THEN {[state |-> "corrupt", labels |-> <<>>]}
    ELSE {[state |-> "corrupt", labels |-> <<>>],
          [state |-> "mismatch", labels |-> <<>>]}
         \cup {[state |-> "ok", labels |-> p] :
                 p \in [1..t.frame.nrows -> PredictedLabels]}

OutputDirs == {[exists |-> FALSE, scores_writable |-> FALSE],
               [exists |-> TRUE, scores_writable |-> FALSE],
               [exists |-> TRUE, scores_writable |-> TRUE]}

\* ------------------------------------------------------------------ preprocess_data
\* One numeric column (age), one binary column (sex) and one column that is in
\* neither list (DEATH_EVENT) stand for the seven, five and one of main.
AgeValues == {40, 60}

\* a binary column is read as integers; anything but 0 casts to True
SexValues == {0, 1, 2}

Rows == [age : AgeValues, sex : SexValues, DEATH_EVENT : ActualLabels]

\* A transformed value num / sqrt(den2); an integer k is k / sqrt(1).
Val(n, d2) == [num |-> n, den2 |-> d2]

RECURSIVE SeqSum(_)
SeqSum(s) == IF s = <<>> THEN 0 ELSE Head(s) + SeqSum(Tail(s))

Column(df, c) == [i \in DOMAIN df |-> df[i][c]]

\* df[binary_columns].astype(bool)
astype_bool(df) == [i \in DOMAIN df |-> [df[i] EXCEPT !.sex = (df[i].sex # 0)]]

\* StandardScaler.fit: mean_ and the square of scale_ (the population variance,
\* or 1 for a constant column) as exact fractions.
StandardScaler_fit(X) ==
    LET n == Len(X)
        s == SeqSum(X)
        q == SeqSum([i \in DOMAIN X |-> X[i] * X[i]])
        v == n * q - s * s
    IN [mean_ |-> Frac(s, n),
        scale2_ |-> IF v = 0 THEN Frac(1, 1) ELSE Frac(v, n * n)]

\* StandardScaler.transform of one value: (x - mean_) / scale_
StandardScaler_transform(sc, x) ==
    Val(x * sc.mean_.den - sc.mean_.num,
        (sc.mean_.den * sc.mean_.den * sc.scale2_.num) \div sc.scale2_.den)

SortedBools(S) ==
    IF S = {FALSE, TRUE} THEN <<FALSE, TRUE>>
    ELSE IF S = {FALSE} THEN <<FALSE>>
    ELSE IF S = {TRUE} THEN <<TRUE>>
    ELSE <<>>

\* OneHotEncoder(drop=None).fit: no level is dropped
OneHotEncoder_fit_no_drop(X) ==
    [categories_ |-> SortedBools(Range(X)), drop_idx_ |-> 0]

\* OneHotEncoder(handle_unknown="ignore", drop='if_binary', dtype=int).fit:
\* the sorted categories seen, the first dropped when there are exactly two.
OneHotEncoder_fit(X) ==
    LET cats == SortedBools(Range(X))
    IN [categories_ |-> cats, drop_idx_ |-> IF Len(cats) = 2 THEN 1 ELSE 0]

\* the categories that get an output column, in order
kept_categories(enc) ==
    SelectSeq(enc.categories_,
              LAMBDA c : enc.drop_idx_ = 0 \/ c # enc.categories_[enc.drop_idx_])

\* OneHotEncoder.transform of one value: an indicator per kept category; a
\* category not seen in fit gives zeros.
OneHotEncoder_transform(enc, x) ==
    LET kept == kept_categories(enc)
    IN [k \in DOMAIN kept |-> Val(IF x = kept[k] THEN 1 ELSE 0, 1)]

Unfitted ==
    [fitted |-> FALSE,
     standardscaler |-> [mean_ |-> Frac(0, 1), scale2_ |-> Frac(1, 1)],
     onehotencoder |-> [categories_ |-> <<>>, drop_idx_ |-> 0]]

\* preprocessor.fit(df)
fit(df) ==
    [fitted |-> TRUE,
     standardscaler |-> StandardScaler_fit(Column(df, "age")),
     onehotencoder |-> OneHotEncoder_fit(Column(df, "sex"))]

\* preprocessor.transform(df): scaled numeric column, encoded binary column,
\* remainder passed through, in this order.
transform(pre, df) ==
    [i \in DOMAIN df |->
        <<StandardScaler_transform(pre.standardscaler, df[i].age)>>
        \o OneHotEncoder_transform(pre.onehotencoder, df[i].sex)
        \o <<Val(df[i].DEATH_EVENT, 1)>>]

\* preprocessor.get_feature_names_out().tolist()
get_feature_names_out(pre) ==
    LET kept == kept_categories(pre.onehotencoder)
    IN <<"standardscaler__age">>
       \o [k \in DOMAIN kept |-> IF kept[k] THEN "onehotencoder__sex_True"
                                            ELSE "onehotencoder__sex_False"]
       \o <<"remainder__DEATH_EVENT">>

\* pd.DataFrame(data, columns=names)
DataFrame(data, names) == [columns |-> names, rows |-> data]

NoData == DataFrame(<<>>, <<>>)

TrainSets == SeqsUpTo(Rows, 1, MaxTrain)

TestSets == SeqsUpTo(Rows, 1, MaxTest)

PreprocessIdle ==
    /\ ppc = "idle"
    /\ train_df = <<>>
    /\ test_df = <<>>
    /\ preprocessor = Unfitted
    /\ fit_calls = 0
    /\ train_scaled = <<>>
    /\ test_scaled = <<>>
    /\ column_names = <<>>
    /\ train_scaled_df = NoData
    /\ test_scaled_df = NoData

\* ------------------------------------------------------------------ Correlation Reporter
\* --threshold_feature_feature, in hundredths (0.92 is the default)
Thresholds == {92, 50}

PassedMsg == "All feature-feature correlation checks passed."

ViolationMsg == "Feature-feature correlation exceeds the maximum acceptable threshold."

\* preprocess_data as one call: <<train_scaled_df, test_scaled_df, column_names>>
preprocess_data(tr, te) ==
    LET trb == astype_bool(tr)
        teb == astype_bool(te)
        pre == fit(trb)
        names == get_feature_names_out(pre)
    IN <<DataFrame(transform(pre, trb), names),
         DataFrame(transform(pre, teb), names),
         names>>

\* The values of column a of a frame. Every value of a column carries the same
\* den2, a positive factor that leaves equality, order and every correlation
\* below unchanged, so a column is read through its numerators.
ColumnNums(df, a) == [i \in 1..Len(df.rows) |-> df.rows[i][a].num]

\* Pearson correlation of two columns: NaN when either has no variance, else
\* sgn * sqrt(num2 / den2).
pearson_seq(x, y) ==
    LET n  == Len(x)
        sx == SeqSum(x)
        sy == SeqSum(y)
        c  == n * SeqSum([i \in 1..n |-> x[i] * y[i]]) - sx * sy
        vx == n * SeqSum([i \in 1..n |-> x[i] * x[i]]) - sx * sx
        vy == n * SeqSum([i \in 1..n |-> y[i] * y[i]]) - sy * sy
    IN IF vx = 0 \/ vy = 0
       THEN [nan |-> TRUE, sgn |-> 0, num2 |-> 0, den2 |-> 1]
       ELSE [nan |-> FALSE,
             sgn |-> IF c > 0 THEN 1 ELSE IF c < 0 THEN -1 ELSE 0,
             num2 |-> c * c, den2 |-> vx * vy]

\* one cell of scaled_train.corr()
pearson(df, a, b) == pearson_seq(ColumnNums(df, a), ColumnNums(df, b))

\* scaled_train.corr()
corr(df) ==
    [p \in (1..Len(df.columns)) \X (1..Len(df.columns)) |-> pearson(df, p[1], p[2])]

\* correlation_matrix.reset_index().melt(id_vars='index') with the columns
\* renamed: one (Feature 1, Feature 2, Correlation) row per cell, column by column
correlation_long(df) ==
    LET m == Len(df.columns)
        cm == corr(df)
    IN [k \in 1..(m * m) |->
          LET c == ((k - 1) \div m) + 1
              r == ((k - 1) % m) + 1
          IN <<df.columns[r], df.columns[c], cm[<<r, c>>]>>]

NoChart == [title |-> "", data |-> <<>>]

\* r > t / 100, for r = sgn * sqrt(num2 / den2): the condition compares the
\* correlation itself, not its magnitude (a NaN is above nothing)
exceeds(r, t) ==
    /\ ~r.nan
    /\ IF t >= 0
       THEN r.sgn > 0 /\ r.num2 * 100 * 100 > t * t * r.den2
       ELSE r.sgn >= 0 \/ r.num2 * 100 * 100 < t * t * r.den2

\* Dataset(scaled_train) names no categorical features, so deepchecks infers
\* them: a float column with at most 5 distinct values is categorical.
is_categorical(x) == Len(x) > 0 /\ Cardinality(Range(x)) <= 5

\* twice the average rank of each value (ties share the mean of their ranks)
rank2(x) ==
    [i \in DOMAIN x |->
        2 * Cardinality({j \in DOMAIN x : x[j] < x[i]})
        + Cardinality({j \in DOMAIN x : x[j] = x[i]}) + 1]

\* numeric with numeric: Spearman's correlation, Pearson's on the ranks
spearman(x, y) == pearson_seq(rank2(x), rank2(y))

RECURSIVE ProdOver(_, _)
ProdOver(f, D) ==
    IF D = {} THEN 1
    ELSE LET d == CHOOSE v \in D : TRUE IN f[d] * ProdOver(f, D \ {d})

\* categorical with numeric: the correlation ratio eta, as
\* eta^2 = (between-category sum of squares) / (total sum of squares),
\* and 0 when the numeric column has no variance
correlation_ratio(cat, num) ==
    LET n   == Len(num)
        s   == SeqSum(num)
        q   == SeqSum([i \in 1..n |-> num[i] * num[i]])
        cs  == Range(cat)
        cnt == [c \in cs |-> Cardinality({i \in 1..n : cat[i] = c})]
        sc  == [c \in cs |->
                  SeqSum([i \in 1..n |-> IF cat[i] = c THEN num[i] ELSE 0])]
        pr  == ProdOver(cnt, cs)
        between == SumOver([c \in cs |-> sc[c] * sc[c] * n * (pr \div cnt[c])], cs)
                   - s * s * pr
        total == pr * (n * q - s * s)
    IN IF total = 0
       THEN [nan |-> FALSE, sgn |-> 0, num2 |-> 0, den2 |-> 1]
       ELSE [nan |-> FALSE, sgn |-> 1, num2 |-> between, den2 |-> total]

\* each column determines the other
one_to_one(x, y) == \A i, j \in DOMAIN x : (x[i] = x[j]) <=> (y[i] = y[j])

\* categorical with categorical: symmetric Theil's U above t / 100. U is 1 when
\* the columns vary and determine each other, 0 when one is constant and NaN
\* when both are. For columns that vary and do not determine each other U lies
\* strictly between 0 and 1; over columns of at most two distinct values and at
\* most 6 rows, which covers every frame considered here, it is at most 0.48,
\* below every threshold of Thresholds.
symmetric_theil_u_exceeds(x, y, t) ==
    /\ Cardinality(Range(x)) > 1
    /\ one_to_one(x, y)
    /\ t < 100

\* FeatureFeatureCorrelation: the measure of a pair follows the kinds of its
\* two features
pair_exceeds(df, a, b, t) ==
    LET x  == ColumnNums(df, a)
        y  == ColumnNums(df, b)
        cx == is_categorical(x)
        cy == is_categorical(y)
    IN IF cx /\ cy THEN symmetric_theil_u_exceeds(x, y, t)
       ELSE IF cx THEN exceeds(correlation_ratio(x, y), t)
       ELSE IF cy THEN exceeds(correlation_ratio(y, x), t)
       ELSE exceeds(spearman(x, y), t)

\* add_condition_max_number_of_pairs_above_threshold: the feature pairs whose
\* correlation is above the threshold
pairs_above(df, t) ==
    {p \in (1..Len(df.columns)) \X (1..Len(df.columns)) :
        p[1] < p[2] /\ pair_exceeds(df, p[1], p[2], t)}

\* validate_feature_correlations raises ValueError iff the condition "at most 0
\* pairs above the threshold" does not pass
validate_feature_correlations_raises(df, t) == Cardinality(pairs_above(df, t)) > 0

\* The directory part of output_file is depth components long; fs gives, from the
\* top, what each component is on disk.
Kinds == {"absent", "dir", "file"}

\* below something that is not a directory there is nothing
Consistent(f) == \A i \in 1..(Len(f) - 1) : f[i] # "dir" => f[i + 1] = "absent"

FileSystems(d) == {f \in [1..d -> Kinds] : Consistent(f)}

OutputFiles ==
    {[given |-> FALSE, depth |-> 0]}
    \cup {[given |-> TRUE, depth |-> d] : d \in 0..MaxDepth}

\* os.path.exists(output_dir)
exists(f) == f[Len(f)] # "absent"

\* os.makedirs(output_dir) raises when the directory exists or when a component
\* on the way is not a directory
makedirs_raises(f) == exists(f) \/ \E i \in DOMAIN f : f[i] = "file"

\* os.makedirs(output_dir): every missing component is created
makedirs(f) == [i \in DOMAIN f |-> "dir"]

\* chart.save(output_file) can write iff the parent of the file is a directory
save_raises(f) == Len(f) > 0 /\ f[Len(f)] # "dir"

\* the test CSVs the Reporter is run with
ReporterTests ==
    {<<[age |-> 60, sex |-> 1, DEATH_EVENT |-> 1]>>,
     <<[age |-> 40, sex |-> 0, DEATH_EVENT |-> 0]>>}

ReporterIdle ==
    /\ pc = "idle"
    /\ train_file = <<>>
    /\ test_file = <<>>
    /\ output_file = [given |-> FALSE, depth |-> 0]
    /\ threshold_feature_feature = 92
    /\ fs = <<>>
    /\ heatmap = "absent"
    /\ shown = FALSE
    /\ scaled_train = NoData
    /\ chart = NoChart
    /\ stdout = <<>>
    /\ stderr = <<>>
    /\ exit_status = -1
    /\ start = [fs |-> <<>>, heatmap |-> "absent"]

EvaluatorIdle ==
    /\ epc = "idle"
    /\ seed = Seed(0, 123)
    /\ rng_state = Unseeded
    /\ scaled_test_data = [readable |-> FALSE, frame |-> NoFrame]
    /\ pipeline_from = NoFit
    /\ results_to = [exists |-> FALSE, scores_writable |-> FALSE]
    /\ cm_file = AbsentTable
    /\ scores_file = AbsentScores
    /\ heart_failure_test = NoFrame
    /\ heart_failure_fit = NoFit
    /\ heart_failure_predictions = <<>>
    /\ cm_crosstab = NoTable
    /\ accuracy = Unbound
    /\ precision = Unbound
    /\ recall = Unbound
    /\ f1 = Unbound
    /\ test_scores = NoScores
    /\ prev = NoPrev

\* ------------------------------------------------------------------ Evaluator: main
InitEvaluator ==
    /\ epc = "seed"
    /\ seed \in Seeds
    /\ rng_state = Unseeded
    /\ scaled_test_data \in TestFiles
    /\ pipeline_from \in Artifacts(scaled_test_data)
    /\ results_to \in OutputDirs
    /\ cm_file = AbsentTable
    /\ scores_file = AbsentScores
    /\ heart_failure_test = NoFrame
    /\ heart_failure_fit = NoFit
    /\ heart_failure_predictions = <<>>
    /\ cm_crosstab = NoTable
    /\ accuracy = Unbound
    /\ precision = Unbound
    /\ recall = Unbound
    /\ f1 = Unbound
    /\ test_scores = NoScores
    /\ prev = NoPrev
    /\ PreprocessIdle
    /\ ReporterIdle

evalInputs == <<scaled_test_data, pipeline_from, results_to>>

\* np.random.seed(seed); set_config(...)
SetSeed ==
    /\ epc = "seed"
    /\ IF seed_raises(seed)
       THEN /\ rng_state' = rng_state
            /\ epc' = "aborted"
       ELSE /\ rng_state' = Seeded(seed)
            /\ epc' = "read_csv"
    /\ UNCHANGED <<seed, evalInputs, cm_file, scores_file, heart_failure_test,
                   heart_failure_fit, heart_failure_predictions, cm_crosstab,
                   test_scores, metricLocals, prev,
                   prepVars, repVars>>

\* heart_failure_test = pd.read_csv(scaled_test_data)
ReadCsv ==
    /\ epc = "read_csv"
    /\ IF scaled_test_data.readable
       THEN /\ heart_failure_test' = scaled_test_data.frame
            /\ epc' = "load_pipeline"
       ELSE /\ heart_failure_test' = heart_failure_test
            /\ epc' = "aborted"
    /\ UNCHANGED <<seed, rng_state, evalInputs, cm_file, scores_file,
                   heart_failure_fit, heart_failure_predictions, cm_crosstab,
                   test_scores, metricLocals, prev,
                   prepVars, repVars>>

\* with open(pipeline_from, 'rb') as f: heart_failure_fit = pickle.load(f)
LoadPipeline ==
    /\ epc = "load_pipeline"
    /\ IF pipeline_from.state = "corrupt"
       THEN /\ heart_failure_fit' = heart_failure_fit
            /\ epc' = "aborted"
       ELSE /\ heart_failure_fit' = pipeline_from
            /\ epc' = "predict"
    /\ UNCHANGED <<seed, rng_state, evalInputs, cm_file, scores_file,
                   heart_failure_test, heart_failure_predictions, cm_crosstab,
                   test_scores, metricLocals, prev,
                   prepVars, repVars>>

\* a pipeline that draws from numpy's global generator: its labels follow the seed
predict_stochastic(pipeline, test) ==
    [i \in DOMAIN pipeline.labels |->
        IF rng_state = Seeded(Seed(0, 123)) THEN pipeline.labels[i]
                           ELSE (pipeline.labels[i] + 1) % 2]

\* heart_failure_fit.predict(heart_failure_test): the labels of a deterministic
\* pipeline depend on the pipeline and the rows only.
predict(pipeline, test) == pipeline.labels

\* heart_failure_predictions = heart_failure_test.assign(predicted=...)
Predict ==
    /\ epc = "predict"
    /\ IF heart_failure_fit.state = "mismatch"
       THEN /\ heart_failure_predictions' = heart_failure_predictions
            /\ epc' = "aborted"
       ELSE /\ heart_failure_predictions' = predict(heart_failure_fit, heart_failure_test)
            /\ epc' = "crosstab"
    /\ UNCHANGED <<seed, rng_state, evalInputs, cm_file, scores_file,
                   heart_failure_test, heart_failure_fit, cm_crosstab,
                   test_scores, metricLocals, prev,
                   prepVars, repVars>>

\* cm_crosstab = pd.crosstab(predictions['DEATH_EVENT'], predictions['predicted'], ...)
Crosstab ==
    /\ epc = "crosstab"
    /\ IF ~heart_failure_test.has_label
       THEN /\ cm_crosstab' = cm_crosstab
            /\ epc' = "aborted"
       ELSE /\ cm_crosstab' = crosstab(heart_failure_test.DEATH_EVENT,
                                       heart_failure_predictions)
            /\ epc' = "metrics"
    /\ UNCHANGED <<seed, rng_state, evalInputs, cm_file, scores_file,
                   heart_failure_test, heart_failure_fit,
                   heart_failure_predictions, test_scores, metricLocals, prev,
                   prepVars, repVars>>

\* the metrics step with its error swallowed: the run goes on to the writes
Metrics_swallow ==
    /\ epc = "metrics"
    /\ accuracy' = accuracy_score(heart_failure_test.DEATH_EVENT,
                                  heart_failure_predictions)
    /\ IF metrics_raise(heart_failure_test.DEATH_EVENT, heart_failure_predictions)
       THEN UNCHANGED <<precision, recall, f1>>
       ELSE /\ precision' = precision_score(heart_failure_test.DEATH_EVENT,
                                            heart_failure_predictions)
            /\ recall' = recall_score(heart_failure_test.DEATH_EVENT,
                                      heart_failure_predictions)
            /\ f1' = f1_score(heart_failure_test.DEATH_EVENT,
                              heart_failure_predictions)
    /\ epc' = "write_cm"
    /\ UNCHANGED <<seed, rng_state, evalInputs, cm_file, scores_file,
                   heart_failure_test, heart_failure_fit,
                   heart_failure_predictions, cm_crosstab, test_scores, prev,
                   prepVars, repVars>>

\* accuracy = accuracy_score(...); precision = precision_score(...);
\* recall = recall_score(...); f1 = f1_score(...)
\* accuracy_score does not raise on these inputs; precision_score is the first
\* to raise, leaving precision, recall and f1 unassigned.
Metrics ==
    /\ epc = "metrics"
    /\ accuracy' = accuracy_score(heart_failure_test.DEATH_EVENT,
                                  heart_failure_predictions)
    /\ IF metrics_raise(heart_failure_test.DEATH_EVENT, heart_failure_predictions)
       THEN /\ UNCHANGED <<precision, recall, f1>>
            /\ epc' = "aborted"
       ELSE /\ precision' = precision_score(heart_failure_test.DEATH_EVENT,
                                            heart_failure_predictions)
            /\ recall' = recall_score(heart_failure_test.DEATH_EVENT,
                                      heart_failure_predictions)
            /\ f1' = f1_score(heart_failure_test.DEATH_EVENT,
                              heart_failure_predictions)
            /\ epc' = "write_cm"
    /\ UNCHANGED <<seed, rng_state, evalInputs, cm_file, scores_file,
                   heart_failure_test, heart_failure_fit,
                   heart_failure_predictions, cm_crosstab, test_scores, prev,
                   prepVars, repVars>>

\* cm_crosstab.to_csv(os.path.join(results_to, "confusion_matrix.csv"))
WriteConfusionMatrix ==
    /\ epc = "write_cm"
    /\ IF results_to.exists
       THEN /\ cm_file' = [state |-> "written", table |-> cm_crosstab]
            /\ epc' = "build_scores"
       ELSE /\ cm_file' = cm_file
            /\ epc' = "aborted"
    /\ UNCHANGED <<seed, rng_state, evalInputs, scores_file, heart_failure_test,
                   heart_failure_fit, heart_failure_predictions, cm_crosstab,
                   test_scores, metricLocals, prev,
                   prepVars, repVars>>

\* test_scores = pd.DataFrame({'accuracy': [accuracy], 'precision': [precision],
\*                             'recall': [recall], 'f1': [f1]})
BuildTestScores ==
    /\ epc = "build_scores"
    /\ test_scores' = scores_frame(accuracy, precision, recall, f1)
    /\ epc' = "write_scores"
    /\ UNCHANGED <<seed, rng_state, evalInputs, cm_file, scores_file,
                   heart_failure_test, heart_failure_fit,
                   heart_failure_predictions, cm_crosstab, metricLocals, prev,
                   prepVars, repVars>>

\* test_scores.to_csv(os.path.join(results_to, "test_scores.csv"), index=False)
WriteTestScores ==
    /\ epc = "write_scores"
    /\ IF results_to.scores_writable
       THEN /\ scores_file' = [state |-> "written", frame |-> test_scores]
            /\ epc' = "done"
       ELSE /\ scores_file' = scores_file
            /\ epc' = "aborted"
    /\ UNCHANGED <<seed, rng_state, evalInputs, cm_file, heart_failure_test,
                   heart_failure_fit, heart_failure_predictions, cm_crosstab,
                   test_scores, metricLocals, prev,
                   prepVars, repVars>>

\* The command is invoked again on the same files with some seed: a fresh process
\* (fresh locals, unseeded generator); the output directory is as the last run
\* left it.
Invoke ==
    /\ epc \in {"done", "aborted"}
    /\ prev' = [valid |-> TRUE, seed |-> seed, outcome |-> epc,
                test |-> scaled_test_data, fit |-> pipeline_from,
                cm_file |-> cm_file, scores_file |-> scores_file]
    /\ seed' \in Seeds
    /\ rng_state' = Unseeded
    /\ epc' = "seed"
    /\ heart_failure_test' = NoFrame
    /\ heart_failure_fit' = NoFit
    /\ heart_failure_predictions' = <<>>
    /\ cm_crosstab' = NoTable
    /\ accuracy' = Unbound
    /\ precision' = Unbound
    /\ recall' = Unbound
    /\ f1' = Unbound
    /\ test_scores' = NoScores
    /\ UNCHANGED <<evalInputs, cm_file, scores_file, prepVars, repVars>>

NextEvaluator ==
    \/ SetSeed
    \/ ReadCsv
    \/ LoadPipeline
    \/ Predict
    \/ Crosstab
    \/ Metrics
    \/ WriteConfusionMatrix
    \/ BuildTestScores
    \/ WriteTestScores
    \/ Invoke

SpecEvaluator == InitEvaluator /\ [][NextEvaluator]_vars

\* ------------------------------------------------------------------ preprocess_data: steps
\* train_df[binary_columns] = train_df[binary_columns].astype(bool); same for test
CastBinary ==
    /\ ppc = "cast"
    /\ train_df' = astype_bool(train_df)
    /\ test_df' = astype_bool(test_df)
    /\ ppc' = "fit"
    /\ UNCHANGED <<preprocessor, fit_calls, train_scaled, test_scaled,
                   column_names, train_scaled_df, test_scaled_df, evalVars, repVars>>

\* preprocessor = make_column_transformer(...); preprocessor.fit(train_df)
Fit ==
    /\ ppc = "fit"
    /\ preprocessor' = fit(train_df)
    /\ fit_calls' = fit_calls + 1
    /\ ppc' = "transform_train"
    /\ UNCHANGED <<train_df, test_df, train_scaled, test_scaled, column_names,
                   train_scaled_df, test_scaled_df, evalVars, repVars>>

\* train_scaled = preprocessor.transform(train_df)
TransformTrain ==
    /\ ppc = "transform_train"
    /\ train_scaled' = transform(preprocessor, train_df)
    /\ ppc' = "transform_test"
    /\ UNCHANGED <<train_df, test_df, preprocessor, fit_calls, test_scaled,
                   column_names, train_scaled_df, test_scaled_df, evalVars, repVars>>

\* test_scaled = preprocessor.fit_transform(test_df): the transformer is refit
TransformTest_refit ==
    /\ ppc = "transform_test"
    /\ preprocessor' = fit(test_df)
    /\ fit_calls' = fit_calls + 1
    /\ test_scaled' = transform(preprocessor', test_df)
    /\ ppc' = "names"
    /\ UNCHANGED <<train_df, test_df, train_scaled, column_names,
                   train_scaled_df, test_scaled_df, evalVars, repVars>>

\* test_scaled = preprocessor.transform(test_df)
TransformTest ==
    /\ ppc = "transform_test"
    /\ test_scaled' = transform(preprocessor, test_df)
    /\ ppc' = "names"
    /\ UNCHANGED <<train_df, test_df, preprocessor, fit_calls, train_scaled,
                   column_names, train_scaled_df, test_scaled_df, evalVars, repVars>>

\* column_names = preprocessor.get_feature_names_out().tolist()
FeatureNames ==
    /\ ppc = "names"
    /\ column_names' = get_feature_names_out(preprocessor)
    /\ ppc' = "frames"
    /\ UNCHANGED <<train_df, test_df, preprocessor, fit_calls, train_scaled,
                   test_scaled, train_scaled_df, test_scaled_df, evalVars, repVars>>

\* train_scaled_df = pd.DataFrame(train_scaled, columns=column_names); same for
\* test; return
BuildFrames ==
    /\ ppc = "frames"
    /\ train_scaled_df' = DataFrame(train_scaled, column_names)
    /\ test_scaled_df' = DataFrame(test_scaled, column_names)
    /\ ppc' = "returned"
    /\ UNCHANGED <<train_df, test_df, preprocessor, fit_calls, train_scaled,
                   test_scaled, column_names, evalVars, repVars>>

\* preprocess_data is called with two data frames
InitPreprocess ==
    /\ EvaluatorIdle
    /\ ReporterIdle
    /\ ppc = "cast"
    /\ train_df \in TrainSets
    /\ test_df \in TestSets
    /\ preprocessor = Unfitted
    /\ fit_calls = 0
    /\ train_scaled = <<>>
    /\ test_scaled = <<>>
    /\ column_names = <<>>
    /\ train_scaled_df = NoData
    /\ test_scaled_df = NoData

NextPreprocess ==
    \/ CastBinary
    \/ Fit
    \/ TransformTrain
    \/ TransformTest
    \/ FeatureNames
    \/ BuildFrames

SpecPreprocess == InitPreprocess /\ [][NextPreprocess]_vars

\* ------------------------------------------------------------------ Correlation Reporter: main
InitReporter ==
    /\ EvaluatorIdle
    /\ pc = "load"
    /\ train_file \in TrainSets
    /\ test_file \in ReporterTests
    /\ output_file \in OutputFiles
    /\ threshold_feature_feature \in Thresholds
    /\ fs \in FileSystems(output_file.depth)
    /\ heatmap = "absent"
    /\ shown = FALSE
    /\ scaled_train = NoData
    /\ chart = NoChart
    /\ stdout = <<>>
    /\ stderr = <<>>
    /\ exit_status = -1
    /\ start = [fs |-> fs, heatmap |-> "absent"]
    /\ ppc = "idle"
    /\ train_df = <<>>
    /\ test_df = <<>>
    /\ preprocessor = Unfitted
    /\ fit_calls = 0
    /\ train_scaled = <<>>
    /\ test_scaled = <<>>
    /\ column_names = <<>>
    /\ train_scaled_df = NoData
    /\ test_scaled_df = NoData

repInputs == <<train_file, test_file, output_file, threshold_feature_feature>>

prepLocals == <<ppc, preprocessor, fit_calls, train_scaled, test_scaled,
                column_names, train_scaled_df, test_scaled_df>>

\* train_df = pd.read_csv(train_file); test_df = pd.read_csv(test_file)
LoadData ==
    /\ pc = "load"
    /\ train_df' = train_file
    /\ test_df' = test_file
    /\ pc' = "preprocess"
    /\ UNCHANGED <<repInputs, fs, heatmap, shown, scaled_train, chart, stdout,
                   stderr, exit_status, start, prepLocals, evalVars>>

\* scaled_train, _, _ = preprocess_data(train_df, test_df, ...); the binary
\* columns of the caller's frames are cast in place
Preprocess ==
    /\ pc = "preprocess"
    /\ scaled_train' = preprocess_data(train_df, test_df)[1]
    /\ train_df' = astype_bool(train_df)
    /\ test_df' = astype_bool(test_df)
    /\ pc' = "plot"
    /\ UNCHANGED <<repInputs, fs, heatmap, shown, chart, stdout, stderr,
                   exit_status, start, prepLocals, evalVars>>

\* plot_correlation_matrix: correlation_matrix, correlation_long, chart
PlotChart ==
    /\ pc = "plot"
    /\ chart' = [title |-> "Correlation Heatmap",
                 data |-> correlation_long(scaled_train)]
    /\ pc' = "check_dir"
    /\ UNCHANGED <<repInputs, fs, heatmap, shown, scaled_train, stdout, stderr,
                   exit_status, start, train_df, test_df, prepLocals, evalVars>>

\* the directory test dropped: makedirs is called whenever there is a directory part
CheckDir_always_makedirs ==
    /\ pc = "check_dir"
    /\ pc' = IF ~output_file.given THEN "show"
             ELSE IF output_file.depth > 0 THEN "makedirs"
             ELSE "save"
    /\ UNCHANGED <<repInputs, fs, heatmap, shown, scaled_train, chart, stdout,
                   stderr, exit_status, start, train_df, test_df, prepLocals,
                   evalVars>>

\* if output_file: output_dir = os.path.dirname(output_file);
\*                 if output_dir and not os.path.exists(output_dir): ...
CheckDir ==
    /\ pc = "check_dir"
    /\ pc' = IF ~output_file.given THEN "show"
             ELSE IF output_file.depth > 0 /\ ~exists(fs) THEN "makedirs"
             ELSE "save"
    /\ UNCHANGED <<repInputs, fs, heatmap, shown, scaled_train, chart, stdout,
                   stderr, exit_status, start, train_df, test_df, prepLocals,
                   evalVars>>

\* os.makedirs(output_dir); click.echo("Directory ... created.")
\* An exception is not caught: traceback on standard error, status 1.
MakeDirs ==
    /\ pc = "makedirs"
    /\ IF makedirs_raises(fs)
       THEN /\ fs' = fs
            /\ stdout' = stdout
            /\ stderr' = Append(stderr, "Traceback")
            /\ exit_status' = 1
            /\ pc' = "crashed_makedirs"
       ELSE /\ fs' = makedirs(fs)
            /\ stdout' = Append(stdout, "Directory created.")
            /\ stderr' = stderr
            /\ exit_status' = exit_status
            /\ pc' = "save"
    /\ UNCHANGED <<repInputs, heatmap, shown, scaled_train, chart, start,
                   train_df, test_df, prepLocals, evalVars>>

\* chart.save(output_file); click.echo("Heatmap saved to ...")
Save ==
    /\ pc = "save"
    /\ IF save_raises(fs)
       THEN /\ heatmap' = heatmap
            /\ stdout' = stdout
            /\ stderr' = Append(stderr, "Traceback")
            /\ exit_status' = 1
            /\ pc' = "crashed_save"
       ELSE /\ heatmap' = "written"
            /\ stdout' = Append(stdout, "Heatmap saved.")
            /\ stderr' = stderr
            /\ exit_status' = exit_status
            /\ pc' = "validate"
    /\ UNCHANGED <<repInputs, fs, shown, scaled_train, chart, start, train_df,
                   test_df, prepLocals, evalVars>>

\* chart.show()
Show ==
    /\ pc = "show"
    /\ shown' = TRUE
    /\ pc' = "validate"
    /\ UNCHANGED <<repInputs, fs, heatmap, scaled_train, chart, stdout, stderr,
                   exit_status, start, train_df, test_df, prepLocals, evalVars>>

\* the try block with the call to validate_feature_correlations in force
Validate_enforced ==
    /\ pc = "validate"
    /\ IF validate_feature_correlations_raises(scaled_train, threshold_feature_feature)
       THEN /\ stderr' = Append(stderr, ViolationMsg)
            /\ stdout' = stdout
            /\ exit_status' = 1
            /\ pc' = "exit1"
       ELSE /\ stdout' = Append(stdout, PassedMsg)
            /\ stderr' = stderr
            /\ exit_status' = 0
            /\ pc' = "done"
    /\ UNCHANGED <<repInputs, fs, heatmap, shown, scaled_train, chart, start,
                   train_df, test_df, prepLocals, evalVars>>

\* try: (call commented out) click.echo("All ... passed.")
\* except ValueError: click.echo(str(e), err=True); exit(1)
\* Nothing in the try block raises ValueError; main returns, status 0.
Validate ==
    /\ pc = "validate"
    /\ stdout' = Append(stdout, PassedMsg)
    /\ exit_status' = 0
    /\ pc' = "done"
    /\ UNCHANGED <<repInputs, fs, heatmap, shown, scaled_train, chart, stderr,
                   start, train_df, test_df, prepLocals, evalVars>>

Terminal == {"done", "exit1", "crashed_makedirs", "crashed_save"}

\* The command is run again with the same arguments: a fresh process on the file
\* system as the last run left it.
Rerun ==
    /\ pc \in Terminal
    /\ pc' = "load"
    /\ start' = [fs |-> fs, heatmap |-> heatmap]
    /\ train_df' = <<>>
    /\ test_df' = <<>>
    /\ scaled_train' = NoData
    /\ chart' = NoChart
    /\ shown' = FALSE
    /\ stdout' = <<>>
    /\ stderr' = <<>>
    /\ exit_status' = -1
    /\ UNCHANGED <<repInputs, fs, heatmap, prepLocals, evalVars>>

NextReporter ==
    \/ LoadData
    \/ Preprocess
    \/ PlotChart
    \/ CheckDir
    \/ MakeDirs
    \/ Save
    \/ Show
    \/ Validate
    \/ Rerun

SpecReporter == InitReporter /\ [][NextReporter]_vars

\* ------------------------------------------------------------------ Evaluator: properties
Binary(s) == Range(s) \subseteq {0, 1}

CellOf(t, a, p) == IF <<a, p>> \in DOMAIN t.cell THEN t.cell[<<a, p>>] ELSE 0

TP == CellOf(cm_crosstab, 1, 1)
FP == CellOf(cm_crosstab, 0, 1)
FN == CellOf(cm_crosstab, 1, 0)
TN == CellOf(cm_crosstab, 0, 0)

\* C2: for binary actual labels and binary predictions the confusion matrix
\* written to confusion_matrix.csv has a cell for each of the four
\* (actual, predicted) pairs of {0,1} x {0,1}, a pair that never occurs included.
C2_AlwaysTwoByTwo ==
    (cm_file.state = "written" /\ Binary(heart_failure_predictions))
        => DOMAIN cm_file.table.cell = {0, 1} \X {0, 1}

\* C3: the cells of the cross-tabulation of DEATH_EVENT against predicted sum to
\* the number of rows of the test set, in the table computed and in the table
\* written.
C3_CellsSumToN ==
    /\ cm_crosstab # NoTable
         => SumOver(cm_crosstab.cell, DOMAIN cm_crosstab.cell)
              = heart_failure_test.nrows
    /\ cm_file.state = "written"
         => SumOver(cm_file.table.cell, DOMAIN cm_file.table.cell)
              = scaled_test_data.frame.nrows

\* the table written for actual = [1,0,1,0], predicted = [1,0,0,0]:
\* (1,1) = 1, (1,0) = 1, (0,0) = 2, (0,1) = 0
C3_Witness ==
    /\ cm_file.state = "written"
    /\ scaled_test_data.frame.DEATH_EVENT = <<1, 0, 1, 0>>
    /\ pipeline_from.labels = <<1, 0, 0, 0>>
    /\ cm_file.table.cell = [p \in {0, 1} \X {0, 1} |->
                               IF p = <<0, 0>> THEN 2 ELSE IF p = <<0, 1>> THEN 0 ELSE 1]

\* C4: for binary predictions on a non-empty labelled test set the metrics are
\* accuracy = (TP+TN)/N, precision = TP/(TP+FP) or 0 when TP+FP = 0,
\* recall = TP/(TP+FN), f1 = the harmonic mean of precision and recall or 0 when
\* both are 0; each is in [0,1]; the table is one row with the columns accuracy,
\* precision, recall, f1 in this order; that table is what test_scores.csv holds.
C4_Metrics ==
    /\ (test_scores # NoScores /\ Binary(heart_failure_predictions)) =>
         LET row == test_scores.rows[1]
             acc == row[1]
             pre == row[2]
             rec == row[3]
             f   == row[4]
         IN /\ test_scores.columns = <<"accuracy", "precision", "recall", "f1">>
            /\ Len(test_scores.rows) = 1
            /\ Len(row) = 4
            /\ FracEq(acc, Frac(TP + TN, heart_failure_test.nrows))
            /\ IF TP + FP = 0 THEN pre.num = 0
                              ELSE FracEq(pre, Frac(TP, TP + FP))
            /\ TP + FN > 0 => FracEq(rec, Frac(TP, TP + FN))
            /\ IF pre.num = 0 /\ rec.num = 0
               THEN f.num = 0
               ELSE f.num * (pre.num * rec.den + rec.num * pre.den)
                      = 2 * pre.num * rec.num * f.den
            /\ \A i \in 1..4 : FracInUnit(row[i])
    /\ epc = "done" => scores_file = [state |-> "written", frame |-> test_scores]

\* the finished run on actual = [1,0,1,0], predicted = [1,0,0,0]: accuracy 3/4,
\* precision 1, recall 1/2, f1 2/3
C4_Witness ==
    /\ epc = "done"
    /\ scores_file.state = "written"
    /\ heart_failure_test.DEATH_EVENT = <<1, 0, 1, 0>>
    /\ heart_failure_predictions = <<1, 0, 0, 0>>
    /\ FracEq(scores_file.frame.rows[1][1], Frac(3, 4))
    /\ FracEq(scores_file.frame.rows[1][2], Frac(1, 1))
    /\ FracEq(scores_file.frame.rows[1][3], Frac(1, 2))
    /\ FracEq(scores_file.frame.rows[1][4], Frac(2, 3))

\* C8 as stated: two runs on the same test CSV, artifact and output directory
\* that differ in the seed, whatever the two seeds, end with the same outcome
\* and the same contents of confusion_matrix.csv and test_scores.csv.
C8_AnySeedInert ==
    (prev.valid /\ prev.seed # seed /\ epc \in {"done", "aborted"}
       /\ prev.test = scaled_test_data /\ prev.fit = pipeline_from)
        => /\ prev.outcome = epc
           /\ prev.cm_file = cm_file
           /\ prev.scores_file = scores_file

\* C8: two runs on the same test CSV, artifact and output directory that differ
\* in the seed, both seeds within 0..2**32-1, end with the same outcome and the
\* same contents of confusion_matrix.csv and test_scores.csv; a run with a seed
\* outside that range fails before it reads anything and leaves both files as
\* it found them.
C8_SeedInert ==
    /\ (prev.valid /\ prev.seed # seed /\ epc \in {"done", "aborted"}
          /\ ~seed_raises(prev.seed) /\ ~seed_raises(seed)
          /\ prev.test = scaled_test_data /\ prev.fit = pipeline_from)
           => /\ prev.outcome = epc
              /\ prev.cm_file = cm_file
              /\ prev.scores_file = scores_file
    /\ (seed_raises(seed) /\ epc # "seed")
           => /\ epc = "aborted"
              /\ rng_state = Unseeded
              /\ heart_failure_test = NoFrame
              /\ heart_failure_fit = NoFit
              /\ cm_file = IF prev.valid THEN prev.cm_file ELSE AbsentTable
              /\ scores_file = IF prev.valid THEN prev.scores_file
                                             ELSE AbsentScores

\* a second run with another accepted seed that wrote both files, after a first
\* run that wrote them too
C8_Witness ==
    /\ prev.valid
    /\ prev.seed # seed
    /\ ~seed_raises(prev.seed)
    /\ ~seed_raises(seed)
    /\ prev.outcome = "done"
    /\ rng_state = Seeded(seed)
    /\ epc = "done"
    /\ cm_file.state = "written"
    /\ scores_file.state = "written"

\* C10: in a run started on an empty output directory, a file is written only
\* after reading, unpickling, predicting, cross-tabulating and the four metrics
\* succeeded; test_scores.csv is never there without confusion_matrix.csv; with
\* the output directory missing neither file is produced; and no step creates
\* the output directory.
C10_WritesLastAndOrdered ==
    /\ [](~prev.valid =>
            /\ (cm_file.state = "written" =>
                  /\ epc \in {"build_scores", "write_scores", "done", "aborted"}
                  /\ scaled_test_data.readable
                  /\ heart_failure_test = scaled_test_data.frame
                  /\ heart_failure_test.has_label
                  /\ heart_failure_fit.state = "ok"
                  /\ heart_failure_predictions = pipeline_from.labels
                  /\ ~metrics_raise(heart_failure_test.DEATH_EVENT,
                                    heart_failure_predictions)
                  /\ \A i \in DOMAIN metricLocals : metricLocals[i] # Unbound
                  /\ cm_file.table = cm_crosstab)
            /\ (scores_file.state = "written" =>
                  /\ cm_file.state = "written"
                  /\ scores_file.frame = test_scores
                  /\ test_scores = scores_frame(accuracy, precision, recall, f1))
            /\ (~results_to.exists =>
                  cm_file.state = "absent" /\ scores_file.state = "absent"))
    /\ [][results_to' = results_to]_vars

\* a first run that ended with confusion_matrix.csv alone
C10_Witness ==
    /\ ~prev.valid
    /\ epc = "aborted"
    /\ cm_file.state = "written"
    /\ scores_file.state = "absent"

\* ------------------------------------------------------------------ preprocess_data: properties
AfterFit == {"transform_train", "transform_test", "names", "frames", "returned"}

\* C6: the transformer is fit exactly once, on the training frame; neither
\* transform changes its fitted parameters; the transformed train and test data
\* are both computed from the parameters fit on the training frame, so the
\* parameters and the transformed train data are determined by the training
\* frame alone.
C6_FitOnceOnTrain ==
    /\ ppc \in {"cast", "fit"} => (fit_calls = 0 /\ preprocessor = Unfitted)
    /\ ppc \in AfterFit =>
         /\ fit_calls = 1
         /\ preprocessor = fit(train_df)
         /\ preprocessor.standardscaler.mean_
              = Frac(SeqSum(Column(train_df, "age")), Len(train_df))
         /\ Range(preprocessor.onehotencoder.categories_)
              = Range(Column(train_df, "sex"))
    /\ ppc \in AfterFit \ {"transform_train"} =>
         train_scaled = transform(fit(train_df), train_df)
    /\ ppc \in {"names", "frames", "returned"} =>
         test_scaled = transform(fit(train_df), test_df)
    /\ ppc = "returned" =>
         /\ train_scaled_df.rows = train_scaled
         /\ test_scaled_df.rows = test_scaled

\* preprocess_data returned for a test frame on which a fit would have given
\* other parameters
C6_Witness ==
    /\ ppc = "returned"
    /\ fit(test_df) # fit(train_df)
    /\ preprocessor = fit(train_df)
    /\ Len(test_scaled_df.rows) = Len(test_df)

\* C7: when the training values of the binary column hold exactly two
\* categories, the output has exactly one 0/1 column for it, equal row by row to
\* the boolean input, in the train and in the test output; the output has one
\* column for the numeric, one for the binary and one for the pass-through
\* column, under the same names for train and test.
C7_OneColumnPerBinary ==
    (ppc = "returned" /\ Range(Column(train_df, "sex")) = {FALSE, TRUE}) =>
        /\ column_names = <<"standardscaler__age", "onehotencoder__sex_True",
                            "remainder__DEATH_EVENT">>
        /\ train_scaled_df.columns = column_names
        /\ test_scaled_df.columns = column_names
        /\ Len(train_scaled_df.rows) = Len(train_df)
        /\ Len(test_scaled_df.rows) = Len(test_df)
        /\ \A i \in DOMAIN train_df :
             /\ Len(train_scaled_df.rows[i]) = 3
             /\ train_scaled_df.rows[i][2] = Val(IF train_df[i].sex THEN 1 ELSE 0, 1)
             /\ train_scaled_df.rows[i][3] = Val(train_df[i].DEATH_EVENT, 1)
        /\ \A i \in DOMAIN test_df :
             /\ Len(test_scaled_df.rows[i]) = 3
             /\ test_scaled_df.rows[i][2] = Val(IF test_df[i].sex THEN 1 ELSE 0, 1)
             /\ test_scaled_df.rows[i][3] = Val(test_df[i].DEATH_EVENT, 1)

\* preprocess_data returned for a training frame with both categories
C7_Witness ==
    /\ ppc = "returned"
    /\ Range(Column(train_df, "sex")) = {FALSE, TRUE}
    /\ Len(column_names) = 3
    /\ \E i \in DOMAIN test_df : test_df[i].sex

\* ------------------------------------------------------------------ Correlation Reporter: properties
ParentMissing(f) == Len(f) > 0 /\ f[Len(f)] = "absent"

AllDirs(f) == \A i \in DOMAIN f : f[i] = "dir"

NoFileOnPath(f) == \A i \in DOMAIN f : f[i] # "file"

BeforeSave == {"load", "preprocess", "plot", "check_dir", "makedirs"}

\* C1: a run of main on training data with at least one feature pair above the
\* threshold ends in the validation failure: the violation message on standard
\* error, status 1, and no 'all checks passed' message.
C1_ViolationExits ==
    (pc \in {"done", "exit1"}
       /\ Cardinality(pairs_above(scaled_train, threshold_feature_feature)) > 0)
        => /\ pc = "exit1"
           /\ exit_status = 1
           /\ ViolationMsg \in Range(stderr)
           /\ PassedMsg \notin Range(stdout)

\* C5 as stated, for any initial file system: with an output path whose parent
\* directory is missing, once the run is past the directory step every parent
\* directory exists.
C5_AnyStateCreated ==
    (output_file.given /\ ParentMissing(start.fs) /\ pc \notin BeforeSave)
        => AllDirs(fs)

\* C5: with an output path given: if the parent directory is missing, makedirs
\* is called before the save is attempted. When no ancestor of the parent is an
\* existing non-directory, every missing parent directory exists by the time
\* the save is attempted; when an ancestor is a non-directory, makedirs raises,
\* nothing is created and the save is not attempted. If the parent path exists,
\* no directory is created and the directory step is not taken (so it cannot
\* fail), on a rerun too; if what exists there is not a directory, the save is
\* attempted and fails, and no heatmap is written. With no output path no
\* directory and no file is created and the chart is shown.
C5_CreateIfMissing ==
    /\ (output_file.given /\ ParentMissing(start.fs) /\ NoFileOnPath(start.fs)) =>
         /\ pc \in BeforeSave => fs = start.fs
         /\ pc \notin BeforeSave => AllDirs(fs)
         /\ pc \notin {"crashed_makedirs", "crashed_save"}
    /\ (output_file.given /\ ParentMissing(start.fs) /\ ~NoFileOnPath(start.fs)) =>
         /\ fs = start.fs
         /\ heatmap = start.heatmap
         /\ pc \in BeforeSave \cup {"crashed_makedirs"}
    /\ (output_file.given /\ ~ParentMissing(start.fs)) =>
         /\ fs = start.fs
         /\ pc \notin {"makedirs", "crashed_makedirs"}
         /\ (Len(start.fs) > 0 /\ start.fs[Len(start.fs)] = "file") =>
              /\ heatmap = start.heatmap
              /\ pc \in (BeforeSave \ {"makedirs"}) \cup {"save", "crashed_save"}
    /\ ~output_file.given =>
         /\ fs = start.fs
         /\ heatmap = start.heatmap
         /\ pc \notin {"makedirs", "save", "crashed_makedirs", "crashed_save"}
         /\ pc \in {"validate", "done"} => shown

\* the save is about to be attempted after two missing nested directories were
\* created
C5_Witness ==
    /\ pc = "save"
    /\ output_file.given
    /\ start.fs = <<"absent", "absent">>
    /\ fs = <<"dir", "dir">>

\* C9: main as written never takes the exit-with-status-1 branch and never
\* prints the violation message; every run that ends without a crash printed
\* 'All feature-feature correlation checks passed.' and has status 0, whatever
\* the threshold and the training data; a run that is past the heatmap step has
\* not crashed after it.
C9_PassedUnconditional ==
    /\ pc # "exit1"
    /\ ViolationMsg \notin Range(stderr)
    /\ pc = "done" => (PassedMsg \in Range(stdout) /\ exit_status = 0)
    /\ PassedMsg \in Range(stdout) => pc = "done"
    /\ ("Heatmap saved." \in Range(stdout) \/ shown) => pc \in {"validate", "done"}

\* a run that ended with the passed message although a feature pair is above
\* the threshold
C9_Witness ==
    /\ pc = "done"
    /\ exit_status = 0
    /\ PassedMsg \in Range(stdout)
    /\ validate_feature_correlations_raises(scaled_train, threshold_feature_feature)

====
